---------------------------- MODULE Spec2Model ----------------------------
(***************************************************************************)
(* Model of the confident-learning training driver                         *)
(* (train_pixel_level_classification.py) and of the confident-map          *)
(* generator (utils/confident_map_generation_test.py).                     *)
(*                                                                         *)
(* Two programs, three specifications over one set of variables:           *)
(*   Spec    one training process: startup checkpoint loading, then the    *)
(*           epoch loop (train pass, evaluation pass, lr step, periodic    *)
(*           snapshot, best-on-validation snapshot).                       *)
(*   SpecCM  one run of TestConfidentMapGeneration: the calls of           *)
(*           TestConfidentMapEachModelEachCLType for model 1 and then      *)
(*           model 2, each for every CL_type of args.CL_type_list.         *)
(*   SpecEpoch  one call of iterate_for_an_epoch on given batches, with    *)
(*           the batch losses, which reach only the logger and the plots   *)
(*           and of which the training process keeps no state.             *)
(*                                                                         *)
(* Numbers: an overlap (dice) score is a rational [num, den]; the means    *)
(* of the code are exact rational means (floating-point rounding is not    *)
(* modelled).  File names are kept as the fields str.split('_') yields,    *)
(* each field as the parts str.split('.') yields, so that the parsing of   *)
(* the startup code is computed, not assumed.                              *)
(***************************************************************************)
EXTENDS Integers, Sequences, FiniteSets

VARIABLES
    \* ---- training process (train_pixel_level_classification.py)
    pc,               \* position of the training process in __main__
    abort,            \* "none", or the exception that ended the process
    saving_dir,       \* cfg.general.saving_dir: "absent", "no_ckpt" (it
                      \* exists without its ckpt sub-directory), "with_ckpt"
    ckpt,             \* the files of ckpt_dir: a set of [name, content]
    params,           \* the network's parameters: [base, steps]
    net_mode,         \* "train" / "eval" (net.train(), net.eval())
    epoch_idx,        \* loop variable of the epoch loop
    hist,             \* metrics.determine_saving_metric_on_validation_list
    max_metric,       \* metrics.max_metric_on_validation
    loaded_from,      \* name of the checkpoint loaded at startup, or <<>>
    batches_consumed, \* batches taken from the data loader in this pass
    opt_calls,        \* optimizer.step() calls in this pass
    params_at_begin,  \* params when the current pass was entered
    dice_class,       \* dice_class_epoch_level of the current pass
    dice_total,       \* dice_total_epoch_level of the current pass
    err_printed,      \* 'Error message: ' lines printed in this pass
    lr_steps,         \* lr_scheduler.step() calls so far
    periodic_log,     \* one [epoch, fired] per pass through lines 287-289
    best_log,         \* one [epoch, fired] per call of save_best_ckpt
    ckpt_at_start,    \* the checkpoint directory the process found
    best_policy,      \* what save_best_ckpt does with an earlier best file:
                      \* "supersede" or "accumulate"
    trace,            \* the steps of the epoch loop completed so far, in order
    \* ---- one call of iterate_for_an_epoch on given batches
    batch_losses,     \* loss.item() of each batch the data loader yields
    batch_dice,       \* dice_batch_level of each batch the data loader yields
    average_loss,     \* average_loss_of_this_epoch
    training,         \* the 'training' argument of the current pass
    \* ---- confident-map generation (confident_map_generation_test.py)
    cm_pc,            \* position in TestConfidentMapGeneration and in the
                      \* call of TestConfidentMapEachModelEachCLType it makes
    cm_err,           \* "none", or the exception that ended the run
    CL_type_list,     \* args.CL_type_list, as the sequence line 206 iterates:
                      \* the entries of a list, the characters of a string
    model_idx,        \* loop variable of line 205
    type_pos,         \* position of CL_type in CL_type_list (from 1; 0
                      \* before the first call)
    CL_type,          \* loop variable of line 206, the CL_type argument
    batch_size,       \* args.batch_size
    sel,              \* args.epoch_idx, the checkpoint epoch selector
    saving_dir_sub_2, \* the saving directory of model sub_2 and the files
    ckpt_sub_2,       \* of its ckpt_dir (those of model sub_1 are
                      \* saving_dir and ckpt)
    names_differ,     \* the two source datasets name their images differently
    cm_dirs,          \* the class_cm_dir of every CL_type: [exists, files],
                      \* files a set of [name, map]
    cm_dirs_at_call,  \* cm_dirs when the current call was entered
    out_created,      \* class_cm_dir was created by this call
    ckpt_path,        \* name of the checkpoint file loaded, or <<>>
    batch_idx,        \* batches evaluated by the network so far
    filename_list,    \* filename_list
    masks_acc,        \* masks_np_accumulated
    preds_acc,        \* preds_np_accumulated
    preds_softmax_acc,\* preds_softmax_np_accumulated
    cl,               \* what cleanlab answered to the calls made
    noise             \* noise

trainVars == <<pc, abort, saving_dir, ckpt, params, net_mode, epoch_idx, hist, max_metric,
               loaded_from, training, batches_consumed, opt_calls, params_at_begin,
               dice_class, dice_total, err_printed, lr_steps, periodic_log,
               best_log, ckpt_at_start, best_policy, trace, batch_losses, batch_dice,
               average_loss>>

\* the arguments and the surroundings of a run of TestConfidentMapGeneration
cmArgs == <<CL_type_list, batch_size, sel, saving_dir_sub_2, ckpt_sub_2,
            names_differ>>
\* the loop variables of lines 205-206
cmLoop == <<model_idx, type_pos, CL_type, cm_dirs_at_call>>

cmVars == <<cm_pc, cm_err, cmArgs, cmLoop, cm_dirs, out_created,
            ckpt_path, batch_idx, filename_list, masks_acc, preds_acc,
            preds_softmax_acc, cl, noise>>

vars == <<trainVars, cmVars>>

--------------------------------------------------------------------------
(* Bounds of the model and configuration values of the program.            *)

\* cfg.train.num_epochs
NumEpochs == 4
\* len(training_data_loader), len(validation_data_loader)
NumBatches == 2
\* cfg.net.out_channels
NumClasses == 2
\* cfg.train.save_epochs
SaveEpochs == 2
\* cfg.visdom.update_batches
UpdateBatches == 1
\* a per-class overlap score of one batch lies in 0 .. DiceMax
DiceMax == 1

--------------------------------------------------------------------------
(* Sequences and exact arithmetic.                                         *)

RECURSIVE SeqSum(_)
SeqSum(s) == IF s = <<>> THEN 0 ELSE Head(s) + SeqSum(Tail(s))

Rat(n, d) == [num |-> n, den |-> d]
RatLt(a, b) == a.num * b.den < b.num * a.den
RatEq(a, b) == a.num * b.den = b.num * a.den
RatLeq(a, b) == ~RatLt(b, a)

\* numpy mean of a non-empty sequence of integers
\* (faulty variant: the sum, not divided by the number of entries)
MeanIntMut(s) == Rat(SeqSum(s), 1)
MeanInt(s) == Rat(SeqSum(s), Len(s))

\* numpy mean of a non-empty sequence of rationals that share a denominator
MeanRat(s) ==
    Rat(SeqSum([i \in 1..Len(s) |-> s[i].num]), s[1].den * Len(s))

\* np.array(dice_epoch_level).mean(axis=0): element-wise mean over batches
MeanAxis0(dice_epoch_level) ==
    [c \in 1..Len(dice_epoch_level[1]) |->
        MeanInt([b \in 1..Len(dice_epoch_level) |-> dice_epoch_level[b][c]])]

\* max over a non-empty sequence of rationals (value of Python's max(list))
RECURSIVE SeqMax(_)
SeqMax(s) ==
    IF Len(s) = 1 THEN s[1]
    ELSE LET m == SeqMax(Tail(s)) IN IF RatLt(s[1], m) THEN m ELSE s[1]

--------------------------------------------------------------------------
(* Checkpoint file names.  A name is the sequence of its '_'-separated     *)
(* fields, each field the sequence of its '.'-separated parts.             *)

DigitStr == <<"0", "1", "2", "3", "4", "5", "6", "7", "8", "9">>

\* '{}'.format(k) for a one-digit k
FormatInt(k) == DigitStr[k + 1]

\* int(s) succeeds exactly on a string of digits
IsIntStr(s) == \E k \in 1..Len(DigitStr) : DigitStr[k] = s
ParseInt(s) == (CHOOSE k \in 1..Len(DigitStr) : DigitStr[k] = s) - 1

\* 'net_epoch_{}.pth'.format(k)
PeriodicName(k) == << <<"net">>, <<"epoch">>, <<FormatInt(k), "pth">> >>

\* the distinguished name of the best-on-validation checkpoint; the text
\* 'net_best_on_validation_set' is the one the loader searches for
BestMarker == << <<"net">>, <<"best">>, <<"on">>, <<"validation">>, <<"set">> >>
BestName(k) == BestMarker \o << <<"epoch">>, <<FormatInt(k), "pth">> >>

\* 'net_best_on_validation_set' in filename
ContainsBestMarker(name) ==
    \E i \in 0..(Len(name) - Len(BestMarker)) :
        \A j \in 1..Len(BestMarker) : name[i + j] = BestMarker[j]

\* torch.save(state, os.path.join(ckpt_dir, name)): creates or overwrites
\* (faulty variant: a file that exists is kept as it is)
WriteFileMut(dir, name, content) ==
    IF \E f \in dir : f.name = name THEN dir
    ELSE dir \cup {[name |-> name, content |-> content]}
WriteFile(dir, name, content) ==
    {f \in dir : f.name # name} \cup {[name |-> name, content |-> content]}

FileNames(dir) == {f.name : f \in dir}
FileNamed(dir, name) == CHOOSE f \in dir : f.name = name

\* the parameters of a freshly initialised network (ApplyKaimingInit)
KaimingParams == [base |-> "kaiming", steps |-> 0]
\* the parameters an earlier run stored after its epoch e
EarlierParams(e) == [base |-> "earlier", steps |-> (e + 1) * NumBatches]

\* optimizer.zero_grad(); loss.backward(); optimizer.step()
OptimizerStep(p) == [p EXCEPT !.steps = @ + 1]

\* checkpoint directories an earlier run of the same program can leave:
\* the periodic snapshots of its first epochs, with or without a best file
PeriodicEpochs(m) == {e \in 0..(m - 1) : e % SaveEpochs = 0}
LeftoverDir(m, best) ==
    {[name |-> PeriodicName(e), content |-> EarlierParams(e)] :
        e \in PeriodicEpochs(m)}
    \cup {[name |-> BestName(e), content |-> EarlierParams(e)] : e \in best}
\* whether save_best_ckpt removes the earlier best file when it writes a
\* new one, or leaves it, is not fixed by what is known of it; a program
\* follows one of the two
BestPolicies == {"supersede", "accumulate"}

\* an earlier run whose last periodic snapshot is that of epoch m - 1 was
\* stopped before epoch m - 1 + SaveEpochs wrote the next one; it wrote the
\* best file of epoch 0 right after the periodic snapshot of epoch 0, so only
\* a run stopped between lines 289 and 292 of epoch 0 leaves no best file;
\* a run that supersedes leaves the best file of its latest best epoch, a
\* run that accumulates the best file of epoch 0 and of every later epoch
\* whose score reached the running maximum
LastBestEpochs(m) == {x \in 0..(NumEpochs - 1) : x <= m + SaveEpochs - 2}
LeftoverBest(policy, m) ==
    (IF m = 1 THEN {{}} ELSE {})
    \cup (IF policy = "accumulate"
          THEN {{0} \cup later : later \in SUBSET (LastBestEpochs(m) \ {0})}
          ELSE {{e} : e \in LastBestEpochs(m)})
\* the directory of an earlier run stopped after its second periodic
\* snapshot, from which the best file has been taken away
ResumableDir == LeftoverDir(SaveEpochs + 1, {})
LeftoverDirs(policy) ==
    {{}, ResumableDir}
    \cup UNION {{LeftoverDir(e + 1, best) : best \in LeftoverBest(policy, e + 1)} :
                  e \in PeriodicEpochs(NumEpochs)}
\* a file in ckpt_dir that no run of the program wrote, its name without a
\* second '_'
ForeignName == << <<"readme", "txt">> >>
ForeignFile == [name |-> ForeignName, content |-> [base |-> "foreign", steps |-> 0]]
\* the directory of an earlier run stopped after epoch 0, with such a file
ForeignDir == LeftoverDir(1, {0}) \cup {ForeignFile}

--------------------------------------------------------------------------
(* Startup: lines 168-210 of train_pixel_level_classification.py.          *)

\* lines 168-170: saving_dir and its ckpt sub-directory are created when
\* saving_dir does not exist; a saving_dir that exists is left as it is
MakeDirs(d) == IF d = "absent" THEN "with_ckpt" ELSE d

\* int(ckpt_file.split('_')[2].split('.')[0]) can be evaluated
HasThirdField(name) == Len(name) >= 3
EpochFieldIsInt(name) == IsIntStr(name[3][1])
EpochOfName(name) == ParseInt(name[3][1])

\* np.array([...]).max()
SetMax(S) == CHOOSE x \in S : \A y \in S : y <= x
LatestCkptIdx(dir) == SetMax({EpochOfName(n) : n \in FileNames(dir)})

\* what int(ckpt_file.split('_')[2].split('.')[0]) raises on one name
NameError(name) ==
    IF ~HasThirdField(name) THEN "IndexError"
    ELSE IF ~EpochFieldIsInt(name) THEN "ValueError"
    ELSE "none"
\* line 204 walks the names in the order os.listdir gave them, which is
\* arbitrary, and stops at the first name that raises: any name that raises
\* can be that one
Line204Errors(dir) == {NameError(n) : n \in FileNames(dir)} \ {"none"}

\* the outcomes of lines 196-210 for a saving_dir and the files of its
\* ckpt_dir: os.listdir fails on a ckpt_dir that does not exist
StartupOutcomes(d, dir) ==
    IF d # "with_ckpt"
    THEN {[err |-> "FileNotFoundError", name |-> <<>>, params |-> KaimingParams]}
    ELSE IF dir = {}
    THEN {[err |-> "none", name |-> <<>>, params |-> KaimingParams]}
    ELSE IF Line204Errors(dir) # {}
    THEN {[err |-> e, name |-> <<>>, params |-> KaimingParams] :
             e \in Line204Errors(dir)}
    ELSE LET latest_ckpt_file == PeriodicName(LatestCkptIdx(dir)) IN
         IF latest_ckpt_file \notin FileNames(dir)
         THEN {[err |-> "FileNotFoundError", name |-> <<>>,
                params |-> KaimingParams]}
         ELSE {[err |-> "none", name |-> latest_ckpt_file,
                params |-> FileNamed(dir, latest_ckpt_file).content]}
\* the parameters the network has when the startup block is left; they do
\* not depend on the order of the listing
ParamsAtStartup(d, dir) == (CHOOSE out \in StartupOutcomes(d, dir) : TRUE).params

passLocals == <<batches_consumed, opt_calls, params_at_begin, dice_class,
                dice_total, err_printed>>
given == <<batch_losses, batch_dice>>
\* what no step of the epoch loop changes
started == <<ckpt_at_start, best_policy, cmVars, given, average_loss>>
fixed == <<saving_dir, started>>
logs == <<periodic_log, best_log, fixed>>
ghosts == <<logs, trace>>

\* one completed step of the epoch loop: a pass that returned ("train",
\* "eval"), lr_scheduler.step() ("lr"), lines 287-289 ("periodic"), the call
\* of save_best_ckpt ("best")
Step(kind, e) == [kind |-> kind, epoch |-> e]

Startup ==
    /\ pc = "startup"
    /\ saving_dir' = MakeDirs(saving_dir)
    /\ \E out \in StartupOutcomes(MakeDirs(saving_dir), ckpt) :
        /\ abort' = out.err
        /\ pc' = IF out.err = "none" THEN "pass_begin" ELSE "aborted"
        /\ params' = out.params
        /\ loaded_from' = out.name
    /\ UNCHANGED <<ckpt, net_mode, epoch_idx, hist, max_metric, training,
                   lr_steps, passLocals, periodic_log, best_log, started,
                   trace>>

--------------------------------------------------------------------------
(* iterate_for_an_epoch: lines 27-164.                                     *)

\* what metrics.metric_batch_level can return as dice_batch_level
DiceVectors == [1..NumClasses -> 0..DiceMax]
DiceLists == [1..NumBatches -> DiceVectors]
ZeroDice == [b \in 1..NumBatches |-> [c \in 1..NumClasses |-> 0]]

\* lines 34-53: mode switch, the two logger lines, the empty lists
PassBegin ==
    /\ pc = "pass_begin"
    /\ pc' = "pass_batches"
    /\ net_mode' = IF training THEN "train" ELSE "eval"
    /\ batches_consumed' = 0
    /\ opt_calls' = 0
    /\ params_at_begin' = params
    /\ dice_class' = <<>>
    /\ dice_total' = Rat(0, 1)
    /\ err_printed' = 0
    /\ UNCHANGED <<abort, ckpt, params, epoch_idx, hist, max_metric,
                   loaded_from, training, lr_steps, ghosts>>

\* logger.write raises at line 38/39 or 43/44: nothing catches it
PassBeginLoggerRaises ==
    /\ pc = "pass_begin"
    /\ pc' = "aborted"
    /\ abort' = "logger"
    /\ net_mode' = IF training THEN "train" ELSE "eval"
    /\ batches_consumed' = 0
    /\ opt_calls' = 0
    /\ params_at_begin' = params
    /\ err_printed' = 0
    /\ UNCHANGED <<ckpt, params, epoch_idx, hist, max_metric, loaded_from,
                   training, lr_steps, dice_class, dice_total, ghosts>>

\* the state of the batch loop
LoopStart(p) ==
    [consumed |-> 0, opt_calls |-> 0, params |-> p, dice_epoch_level |-> <<>>,
     printed |-> 0]

\* lines 56-89: forward, loss, (training only) backward and step, metrics
\* (faulty variant: backward and step also when not training)
BatchBodyMut(tr, st, dice_batch_level) ==
    [st EXCEPT !.consumed = @ + 1,
               !.opt_calls = @ + 1,
               !.params = OptimizerStep(@),
               !.dice_epoch_level = Append(@, dice_batch_level)]
BatchBody(tr, st, dice_batch_level) ==
    [st EXCEPT !.consumed = @ + 1,
               !.opt_calls = IF tr THEN @ + 1 ELSE @,
               !.params = IF tr THEN OptimizerStep(@) ELSE @,
               !.dice_epoch_level = Append(@, dice_batch_level)]

\* which batches of a pass have the visdom_obj.images calls raise
DisplayFaults(n) == [1..n -> BOOLEAN]

\* lines 96-118: the three visdom_obj.images calls of one batch inside
\* try/except
BatchDisplay(st, b_idx, images_raise) ==
    IF b_idx % UpdateBatches = 0 /\ images_raise
    THEN [st EXCEPT !.printed = @ + 1]
    ELSE st

\* the loop state after the first n batches have been processed completely
RECURSIVE RunBatches(_, _, _, _, _)
RunBatches(tr, p, dice, images_raise, n) ==
    IF n = 0 THEN LoopStart(p)
    ELSE BatchDisplay(
            BatchBody(tr, RunBatches(tr, p, dice, images_raise, n - 1), dice[n]),
            n - 1, images_raise[n])

\* line 130: max(metrics.max_metric_on_validation, dice_total_epoch_level)
\* (faulty variant: the maximum is overwritten by the latest score)
UpdateMaxMut(m, d) == d
UpdateMax(m, d) == IF RatLt(m, d) THEN d ELSE m

\* lines 56-130 without an exception: every batch, then the epoch figures
PassBatches ==
    /\ pc = "pass_batches"
    /\ \E dice \in DiceLists, images_raise \in DisplayFaults(NumBatches) :
        LET st == RunBatches(training, params, dice, images_raise, NumBatches)
            dice_class_epoch_level == MeanAxis0(st.dice_epoch_level)
            dice_total_epoch_level == MeanRat(dice_class_epoch_level)
        IN  /\ batches_consumed' = st.consumed
            /\ opt_calls' = st.opt_calls
            /\ params' = st.params
            /\ err_printed' = st.printed
            /\ dice_class' = dice_class_epoch_level
            /\ dice_total' = dice_total_epoch_level
            /\ IF training
               THEN UNCHANGED <<hist, max_metric>>
               ELSE /\ hist' = Append(hist, dice_total_epoch_level)
                    /\ max_metric' = UpdateMax(max_metric, dice_total_epoch_level)
    /\ pc' = "pass_report"
    /\ UNCHANGED <<abort, ckpt, net_mode, epoch_idx, loaded_from, training,
                   params_at_begin, lr_steps, ghosts>>

\* logger.write raises at line 93 in batch b: the batch has been scored and,
\* when training, stepped; the lists of the frame are lost
PassBatchLoggerRaises ==
    /\ pc = "pass_batches"
    /\ \E b \in 0..(NumBatches - 1) : \E images_raise \in DisplayFaults(b) :
        LET st == BatchBody(training,
                            RunBatches(training, params, ZeroDice, images_raise, b),
                            ZeroDice[b + 1])
        IN  /\ batches_consumed' = st.consumed
            /\ opt_calls' = st.opt_calls
            /\ params' = st.params
            /\ err_printed' = st.printed
    /\ pc' = "aborted"
    /\ abort' = "logger"
    /\ UNCHANGED <<ckpt, net_mode, epoch_idx, hist, max_metric, loaded_from,
                   training, params_at_begin, dice_class, dice_total, lr_steps,
                   ghosts>>

\* what batch b (from 0) leaves when it raises: in the forward pass, the
\* loss or loss.backward() (lines 66-83) nothing but the batch taken from
\* the loader, in metrics.metric_batch_level (line 87) also the optimizer
\* step of lines 81-84
BatchRaises(tr, st, point) ==
    IF point = "forward_or_loss"
    THEN [st EXCEPT !.consumed = @ + 1]
    ELSE [st EXCEPT !.consumed = @ + 1,
                    !.opt_calls = IF tr THEN @ + 1 ELSE @,
                    !.params = IF tr THEN OptimizerStep(@) ELSE @]

\* the network, the loss or the metrics raise in batch b: nothing catches it
PassBatchRaises ==
    /\ pc = "pass_batches"
    /\ \E b \in 0..(NumBatches - 1) : \E images_raise \in DisplayFaults(b) :
        \E point \in {"forward_or_loss", "metric_batch_level"} :
        LET st == BatchRaises(training,
                              RunBatches(training, params, ZeroDice, images_raise, b),
                              point)
        IN  /\ batches_consumed' = st.consumed
            /\ opt_calls' = st.opt_calls
            /\ params' = st.params
            /\ err_printed' = st.printed
            /\ abort' = point
    /\ pc' = "aborted"
    /\ UNCHANGED <<ckpt, net_mode, epoch_idx, hist, max_metric, loaded_from,
                   training, params_at_begin, dice_class, dice_total, lr_steps,
                   ghosts>>

\* lines 132-164 without an exception: the log lines and the line plots;
\* the function returns and its frame is gone
\* (faulty variant: the learning-rate step follows the training pass and the
\* evaluation pass is never run)
PassReportMut ==
    /\ pc = "pass_report"
    /\ pc' = "lr_step"
    /\ training' = FALSE
    /\ batches_consumed' = 0
    /\ opt_calls' = 0
    /\ params_at_begin' = params
    /\ dice_class' = <<>>
    /\ dice_total' = Rat(0, 1)
    /\ err_printed' = 0
    /\ trace' = Append(trace, Step(IF training THEN "train" ELSE "eval",
                                   epoch_idx))
    /\ UNCHANGED <<abort, ckpt, params, net_mode, epoch_idx, hist, max_metric,
                   loaded_from, lr_steps, logs>>
PassReport ==
    /\ pc = "pass_report"
    /\ pc' = IF training THEN "pass_begin" ELSE "lr_step"
    /\ training' = FALSE
    /\ batches_consumed' = 0
    /\ opt_calls' = 0
    /\ params_at_begin' = params
    /\ dice_class' = <<>>
    /\ dice_total' = Rat(0, 1)
    /\ err_printed' = 0
    /\ trace' = Append(trace, Step(IF training THEN "train" ELSE "eval",
                                   epoch_idx))
    /\ UNCHANGED <<abort, ckpt, params, net_mode, epoch_idx, hist, max_metric,
                   loaded_from, lr_steps, logs>>

\* logger.write (lines 133-137) or visdom_obj.line (lines 140-162) raises
PassReportSinkRaises ==
    /\ pc = "pass_report"
    /\ \E sink \in {"logger", "visdom_line"} : abort' = sink
    /\ pc' = "aborted"
    /\ UNCHANGED <<ckpt, params, net_mode, epoch_idx, hist, max_metric,
                   loaded_from, training, lr_steps, passLocals, ghosts>>

--------------------------------------------------------------------------
(* The rest of the epoch loop: lines 283-294.                              *)

\* lr_scheduler.step(); logger.flush()
LrStep ==
    /\ pc = "lr_step"
    /\ lr_steps' = lr_steps + 1
    /\ pc' = "periodic"
    /\ trace' = Append(trace, Step("lr", epoch_idx))
    /\ UNCHANGED <<abort, ckpt, params, net_mode, epoch_idx, hist, max_metric,
                   loaded_from, training, passLocals, logs>>

\* line 288: epoch_idx % cfg.train.save_epochs is 0
\* (faulty variant: a snapshot at every epoch)
PeriodicDueMut(e) == TRUE
PeriodicDue(e) == e % SaveEpochs = 0

\* lines 287-289
PeriodicSave ==
    /\ pc = "periodic"
    /\ ckpt' = IF PeriodicDue(epoch_idx)
               THEN WriteFile(ckpt, PeriodicName(epoch_idx), params)
               ELSE ckpt
    /\ periodic_log' = Append(periodic_log, [epoch |-> epoch_idx,
                                             fired |-> PeriodicDue(epoch_idx)])
    /\ pc' = "best"
    /\ trace' = Append(trace, Step("periodic", epoch_idx))
    /\ UNCHANGED <<abort, params, net_mode, epoch_idx, hist, max_metric,
                   loaded_from, training, lr_steps, passLocals, best_log,
                   fixed>>

\* save_best_ckpt (common.utils): the epoch's score equals or exceeds the
\* running maximum of the validation history
IsBest(metric_list, running_max) ==
    RatLeq(running_max, metric_list[Len(metric_list)])

\* save_best_ckpt writes the best file of epoch e: under "supersede" the
\* earlier best files are removed, under "accumulate" they stay
WriteBest(policy, dir, e, p) ==
    IF policy = "supersede"
    THEN WriteFile({f \in dir : ~ContainsBestMarker(f.name)}, BestName(e), p)
    ELSE WriteFile(dir, BestName(e), p)

\* line 292, then the next iteration of the loop at line 264
SaveBest ==
    /\ pc = "best"
    /\ ckpt' = IF IsBest(hist, max_metric)
               THEN WriteBest(best_policy, ckpt, epoch_idx, params)
               ELSE ckpt
    /\ best_log' = Append(best_log, [epoch |-> epoch_idx,
                                     fired |-> IsBest(hist, max_metric)])
    /\ trace' = Append(trace, Step("best", epoch_idx))
    /\ IF epoch_idx + 1 < NumEpochs
       THEN /\ epoch_idx' = epoch_idx + 1
            /\ training' = TRUE
            /\ pc' = "pass_begin"
       ELSE /\ UNCHANGED <<epoch_idx, training>>
            /\ pc' = "finish"
    /\ UNCHANGED <<abort, params, net_mode, hist, max_metric, loaded_from,
                   lr_steps, passLocals, periodic_log, fixed>>

\* line 294
Finish ==
    /\ pc = "finish"
    /\ pc' = "done"
    /\ UNCHANGED <<abort, ckpt, params, net_mode, epoch_idx, hist, max_metric,
                   loaded_from, training, lr_steps, passLocals, ghosts>>

--------------------------------------------------------------------------
(* The training process.                                                   *)

\* metrics.max_metric_on_validation as MetricsPixelLevelClassification
\* creates it
InitialMax == Rat(0, 1)

\* the CL_type values lines 169-189 know, and one they do not
KnownCLTypes == {"both", "Qij", "Cij", "intersection", "union",
                 "prune_by_class", "prune_by_noise_rate"}
UnknownCLType == "not_a_method"
AllCLTypes == KnownCLTypes \cup {UnknownCLType}

\* the loop variable of line 206 before the loop has bound it
NoCLType == "(unbound)"

\* the characters of a string: what line 206 iterates when args.CL_type_list
\* is a string, as every value given on the command line is (type=str,
\* line 44)
Characters(str) ==
    IF str = "both" THEN <<"b", "o", "t", "h">>
    ELSE IF str = "Qij" THEN <<"Q", "i", "j">>
    ELSE IF str = "Cij" THEN <<"C", "i", "j">>
    ELSE IF str = "union" THEN <<"u", "n", "i", "o", "n">>
    ELSE IF str = "intersection"
    THEN <<"i", "n", "t", "e", "r", "s", "e", "c", "t", "i", "o", "n">>
    ELSE IF str = "prune_by_class"
    THEN <<"p", "r", "u", "n", "e", "_", "b", "y", "_", "c", "l", "a", "s", "s">>
    ELSE IF str = "prune_by_noise_rate"
    THEN <<"p", "r", "u", "n", "e", "_", "b", "y", "_", "n", "o", "i", "s", "e",
           "_", "r", "a", "t", "e">>
    ELSE <<>>

\* CL_type.split('_')
UnderscoreFields(t) ==
    IF t = "_" THEN <<"", "">>
    ELSE IF t = "prune_by_class" THEN <<"prune", "by", "class">>
    ELSE IF t = "prune_by_noise_rate" THEN <<"prune", "by", "noise", "rate">>
    ELSE IF t = "not_a_method" THEN <<"not", "a", "method">>
    ELSE <<t>>

\* lines 75-78: the last component of class_cm_dir, as its '-'-separated
\* parts after the label class name: 'confident-maps' for 'both', and
\* 'confident-maps-' + CL_type.replace('_', '-') for every other CL_type
ClassCmDir(t) ==
    IF t # "both" THEN <<"confident", "maps">> \o UnderscoreFields(t)
    ELSE <<"confident", "maps">>

\* the class_cm_dir of the entries of a CL_type_list
CmDirNames(list) == {ClassCmDir(list[i]) : i \in 1..Len(list)}

\* a directory that does not exist, and none of those of a list existing
AbsentDir == [exists |-> FALSE, files |-> {}]
NoCmDirs(list) == [d \in CmDirNames(list) |-> AbsentDir]

\* class_cm_dir of the current call, whether it exists, and its files
class_cm_dir == ClassCmDir(CL_type)
out_exists == cm_dirs[class_cm_dir].exists
cm_files == cm_dirs[class_cm_dir].files

\* the confident-map variables while no confident map is generated
CMIdle ==
    /\ cm_pc = "off"
    /\ cm_err = "none"
    /\ CL_type_list = <<"both">>
    /\ model_idx = 1
    /\ type_pos = 0
    /\ CL_type = NoCLType
    /\ batch_size = 1
    /\ sel = -1
    /\ saving_dir_sub_2 = "absent"
    /\ ckpt_sub_2 = {}
    /\ names_differ = FALSE
    /\ cm_dirs = NoCmDirs(CL_type_list)
    /\ cm_dirs_at_call = NoCmDirs(CL_type_list)
    /\ out_created = FALSE
    /\ ckpt_path = <<>>
    /\ batch_idx = 0
    /\ filename_list = <<>>
    /\ masks_acc = <<>>
    /\ preds_acc = <<>>
    /\ preds_softmax_acc = <<>>
    /\ cl = <<>>
    /\ noise = <<>>

\* the training variables of a process at the given position
TrainInit(start_pc) ==
    /\ pc = start_pc
    /\ abort = "none"
    /\ params = KaimingParams
    /\ net_mode = "train"
    /\ epoch_idx = 0
    /\ hist = <<>>
    /\ max_metric = InitialMax
    /\ loaded_from = <<>>
    /\ training = TRUE
    /\ batches_consumed = 0
    /\ opt_calls = 0
    /\ params_at_begin = KaimingParams
    /\ dice_class = <<>>
    /\ dice_total = Rat(0, 1)
    /\ err_printed = 0
    /\ lr_steps = 0
    /\ periodic_log = <<>>
    /\ best_log = <<>>
    /\ ckpt_at_start = ckpt
    /\ trace = <<>>
    /\ batch_losses = <<>>
    /\ batch_dice = <<>>
    /\ average_loss = Rat(0, 1)

\* what the process can find: no saving_dir; the saving_dir of a run
\* stopped between line 169 and line 170, without ckpt_dir; a saving_dir
\* with the ckpt_dir an earlier run left, or with that ckpt_dir and a
\* foreign file
SavingDirs(policy) ==
    {[dir |-> "absent", files |-> {}], [dir |-> "no_ckpt", files |-> {}]}
    \cup {[dir |-> "with_ckpt", files |-> d] :
             d \in LeftoverDirs(policy) \cup {ForeignDir}}

Init ==
    /\ best_policy \in BestPolicies
    /\ \E s \in SavingDirs(best_policy) : saving_dir = s.dir /\ ckpt = s.files
    /\ TrainInit("startup")
    /\ CMIdle

Next ==
    \/ Startup
    \/ PassBegin
    \/ PassBeginLoggerRaises
    \/ PassBatches
    \/ PassBatchLoggerRaises
    \/ PassBatchRaises
    \/ PassReport
    \/ PassReportSinkRaises
    \/ LrStep
    \/ PeriodicSave
    \/ SaveBest
    \/ Finish

Spec == Init /\ [][Next]_vars

--------------------------------------------------------------------------
(* One call of iterate_for_an_epoch (lines 27-130) on given batches.       *)

\* a batch loss is one of 0 .. LossMax
LossMax == 2
LossLists == [1..NumBatches -> 0..LossMax]

\* the batches of section 8 of the specification: losses 1.0, 2.0, 3.0 and
\* the overlap vectors (0.9, 0.1), (0.8, 0.2), (0.7, 0.3) counted in tenths
ExampleLosses == <<1, 2, 3>>
ExampleDice == << <<9, 1>>, <<8, 2>>, <<7, 3>> >>

\* what the batches of the data loader can come to
GivenBatches ==
    {[losses |-> l, dice |-> d] : l \in LossLists, d \in DiceLists}
    \cup {[losses |-> ExampleLosses, dice |-> ExampleDice]}

\* line 78: loss_for_each_batch_list after the first n batches
RECURSIVE LossesOf(_, _)
LossesOf(losses, n) ==
    IF n = 0 THEN <<>> ELSE Append(LossesOf(losses, n - 1), losses[n])

\* the validation histories a call can find: none yet, or one epoch's score
PriorHists == {<<>>, <<Rat(NumClasses, NumBatches * NumClasses)>>}

\* lines 56-130 on the given batches
PassGivenBatches ==
    /\ pc = "pass_batches"
    /\ \E images_raise \in DisplayFaults(Len(batch_dice)) :
        LET n == Len(batch_dice)
            st == RunBatches(training, params, batch_dice, images_raise, n)
            loss_for_each_batch_list == LossesOf(batch_losses, n)
            dice_class_epoch_level == MeanAxis0(st.dice_epoch_level)
            dice_total_epoch_level == MeanRat(dice_class_epoch_level)
            average_loss_of_this_epoch == MeanInt(loss_for_each_batch_list)
        IN  /\ batches_consumed' = st.consumed
            /\ opt_calls' = st.opt_calls
            /\ params' = st.params
            /\ err_printed' = st.printed
            /\ dice_class' = dice_class_epoch_level
            /\ dice_total' = dice_total_epoch_level
            /\ average_loss' = average_loss_of_this_epoch
            /\ IF training
               THEN UNCHANGED <<hist, max_metric>>
               ELSE /\ hist' = Append(hist, dice_total_epoch_level)
                    /\ max_metric' = UpdateMax(max_metric, dice_total_epoch_level)
    /\ pc' = "pass_report"
    /\ UNCHANGED <<abort, ckpt, net_mode, epoch_idx, loaded_from, training,
                   params_at_begin, lr_steps, periodic_log, best_log,
                   ckpt_at_start, best_policy, saving_dir, cmVars, given,
                   trace>>

InitEpoch ==
    /\ pc = "pass_begin"
    /\ abort = "none"
    /\ saving_dir = "with_ckpt"
    /\ ckpt = {}
    /\ ckpt_at_start = {}
    /\ best_policy = "supersede"
    /\ params = KaimingParams
    /\ net_mode = "train"
    /\ training \in BOOLEAN
    /\ hist \in PriorHists
    /\ max_metric = IF hist = <<>> THEN InitialMax ELSE SeqMax(hist)
    /\ epoch_idx = Len(hist)
    /\ lr_steps = 0
    /\ loaded_from = <<>>
    /\ batches_consumed = 0
    /\ opt_calls = 0
    /\ params_at_begin = KaimingParams
    /\ dice_class = <<>>
    /\ dice_total = Rat(0, 1)
    /\ err_printed = 0
    /\ periodic_log = <<>>
    /\ best_log = <<>>
    /\ trace = <<>>
    /\ \E g \in GivenBatches :
        /\ batch_losses = g.losses
        /\ batch_dice = g.dice
    /\ average_loss = Rat(0, 1)
    /\ CMIdle

NextEpoch ==
    \/ PassBegin
    \/ PassGivenBatches

SpecEpoch == InitEpoch /\ [][NextEpoch]_vars

--------------------------------------------------------------------------
(* Confident-map generation: TestConfidentMapGeneration (lines 204-210 of  *)
(* utils/confident_map_generation_test.py) and the calls of                *)
(* TestConfidentMapEachModelEachCLType (lines 66-201) it makes.            *)

\* number of images of each of the two source datasets
NumImages == 2
\* largest args.batch_size tried
MaxBatchSize == 2
\* largest number of pixels cleanlab marks in one answer
MaxNoisy == 1
\* cfg.dataset.cropping_size[0], cfg.dataset.cropping_size[1]
Height == 2
Width == 3

\* lines 69-73: model 1 is run on the data of 'sub-2', model 2 on the data
\* of 'sub-1'
SrcData(m) == IF m = 2 THEN "sub-1" ELSE "sub-2"
\* lines 70-72 and 88: the saving directory of model m and the files of
\* its checkpoint directory
ModelSavingDir(m) == IF m = 2 THEN saving_dir_sub_2 ELSE saving_dir
ModelCkptDir(m) == IF m = 2 THEN ckpt_sub_2 ELSE ckpt

\* the datasets: image i of source src has the file name
\* DatasetFilename(src, i), which the two sources either share or not; its
\* label and the network's outputs are kept as tags that say which pixel
\* of which source they belong to
DatasetFilename(src, i) ==
    <<"image",
      FormatInt(IF names_differ /\ src = "sub-1" THEN NumImages + i ELSE i),
      "png">>
LabelAt(src, i, r, c) == [src |-> src, img |-> i, row |-> r, col |-> c]
PredAt(src, i, ch, r, c, sm) ==
    [src |-> src, img |-> i, ch |-> ch, row |-> r, col |-> c, softmax |-> sm]

\* DataLoader(dataset, batch_size, shuffle=False): the images of batch k
NumCMBatches(bs) == (NumImages + bs - 1) \div bs
BatchImages(k, bs) ==
    [j \in 1..(IF (k + 1) * bs <= NumImages THEN bs ELSE NumImages - k * bs)
        |-> k * bs + j]

\* masks_tensor of a batch: N x H x W
MasksTensor(src, ids) ==
    [j \in 1..Len(ids) |-> [r \in 1..Height |-> [c \in 1..Width |->
        LabelAt(src, ids[j], r, c)]]]
\* net(images_tensor, use_softmax=sm): N x C x H x W
NetForward(src, ids, sm) ==
    [j \in 1..Len(ids) |-> [ch \in 1..NumClasses |-> [r \in 1..Height |->
        [c \in 1..Width |-> PredAt(src, ids[j], ch, r, c, sm)]]]]

\* np.swapaxes(a, 1, 2) and np.swapaxes(a, 2, 3) of a four-dimensional array
SwapAxes12(a) ==
    [n \in 1..Len(a) |-> [x \in 1..Len(a[n][1]) |-> [y \in 1..Len(a[n]) |->
        a[n][y][x]]]]
SwapAxes23(a) ==
    [n \in 1..Len(a) |-> [x \in 1..Len(a[n]) |->
        [y \in 1..Len(a[n][x][1]) |-> [z \in 1..Len(a[n][x]) |->
            a[n][x][z][y]]]]]

\* row-major flattening of the outermost dimension into the next one
RECURSIVE Concat(_)
Concat(ss) == IF ss = <<>> THEN <<>> ELSE Head(ss) \o Concat(Tail(ss))

\* lines 155-158 and 160-163: N x C x H x W to (N*H*W) x C
FlattenPreds(a) == Concat(Concat(SwapAxes23(SwapAxes12(a))))
\* line 165: N x H x W to N*H*W
FlattenMasks(a) == Concat(Concat(a))

\* line 191: noise.reshape(-1, height, width).astype(np.uint8) * 255
ToByte(b) == IF b THEN 255 ELSE 0
\* (faulty variant: the mask is read back column by column)
ReshapeMapsMut(flat) ==
    [k \in 1..(Len(flat) \div (Height * Width)) |-> [r \in 1..Height |->
        [c \in 1..Width |->
            ToByte(flat[(k - 1) * Height * Width + (c - 1) * Height + r])]]]
ReshapeMaps(flat) ==
    [k \in 1..(Len(flat) \div (Height * Width)) |-> [r \in 1..Height |->
        [c \in 1..Width |->
            ToByte(flat[(k - 1) * Height * Width + (r - 1) * Width + c])]]]

\* lines 193-199: cv2.imwrite of map idx under filename_list[idx]
RECURSIVE WriteMaps(_, _, _, _)
WriteMaps(files, names, maps, n) ==
    IF n = 0 THEN files
    ELSE WriteFile(WriteMaps(files, names, maps, n - 1), names[n], maps[n])

\* cleanlab.pruning.get_noise_indices: one boolean per example; for given
\* labels, probabilities and prune_method the answer is fixed, and the model
\* lets it be any mask that marks at most MaxNoisy of the candidate pixels:
\* the pixel of the first row and last column and the pixel of the last row
\* and first column of the first image, and the pixel of the first row and
\* last column of the last image
NumPixels == NumImages * Height * Width
CandidatePixels ==
    {Width, (Height - 1) * Width + 1,
     (NumImages - 1) * Height * Width + Width}
NoisySets(k) == {S \in SUBSET CandidatePixels : Cardinality(S) <= k}
CleanlabAnswers == {[i \in 1..NumPixels |-> i \in S] : S \in NoisySets(MaxNoisy)}

NeedsSoftmaxBoth(t) == t \in {"both", "Qij", "intersection", "union"}
NeedsRawBoth(t) == t \in {"Cij", "intersection", "union"}
NeedsSoftmaxMethod(t) == t \in {"prune_by_class", "prune_by_noise_rate"}

\* lines 169-189: the value of 'noise' for a CL_type, given cleanlab's
\* answers; no branch binds it for a CL_type outside the list
\* (faulty variant: 'union' and 'intersection' return one answer alone)
NoiseOfMut(t, answers) ==
    IF t \in {"both", "Qij", "union"}
    THEN [bound |-> TRUE, mask |-> answers.softmax_both]
    ELSE IF t \in {"Cij", "intersection"}
    THEN [bound |-> TRUE, mask |-> answers.raw_both]
    ELSE IF t \in {"prune_by_class", "prune_by_noise_rate"}
    THEN [bound |-> TRUE, mask |-> answers.softmax_method]
    ELSE [bound |-> FALSE, mask |-> <<>>]
NoiseOf(t, answers) ==
    IF t \in {"both", "Qij"}
    THEN [bound |-> TRUE, mask |-> answers.softmax_both]
    ELSE IF t = "Cij"
    THEN [bound |-> TRUE, mask |-> answers.raw_both]
    ELSE IF t = "intersection"
    THEN [bound |-> TRUE,
          mask |-> [i \in 1..Len(answers.softmax_both) |->
                        answers.softmax_both[i] /\ answers.raw_both[i]]]
    ELSE IF t = "union"
    THEN [bound |-> TRUE,
          mask |-> [i \in 1..Len(answers.softmax_both) |->
                        answers.softmax_both[i] \/ answers.raw_both[i]]]
    ELSE IF t \in {"prune_by_class", "prune_by_noise_rate"}
    THEN [bound |-> TRUE, mask |-> answers.softmax_method]
    ELSE [bound |-> FALSE, mask |-> <<>>]

\* lines 94-96 of confident_map_generation_test.py: the files the loader
\* can take as "the best ckpt" (os.listdir fixes no order)
BestCkptChoices(dir) == {f \in dir : ContainsBestMarker(f.name)}

\* lines 75-82: class_cm_dir is created when it does not exist
CMMakeDir ==
    /\ cm_pc = "mkdir"
    /\ cm_pc' = "load"
    /\ cm_dirs' = [cm_dirs EXCEPT ![class_cm_dir].exists = TRUE]
    /\ out_created' = ~out_exists
    /\ UNCHANGED <<trainVars, cm_err, cmArgs, cmLoop, ckpt_path,
                   batch_idx, filename_list, masks_acc, preds_acc,
                   preds_softmax_acc, cl, noise>>

\* lines 87-97 and 101: the checkpoint files the call can end up loading
\* from a model's saving directory d with the checkpoint files dir;
\* os.listdir and torch.load fail on a ckpt_dir that does not exist
LoadOutcomes(d, dir, epoch_sel) ==
    IF d # "with_ckpt"
    THEN {[err |-> "FileNotFoundError", name |-> <<>>]}
    ELSE IF epoch_sel >= 0
    THEN IF PeriodicName(epoch_sel) \in FileNames(dir)
         THEN {[err |-> "none", name |-> PeriodicName(epoch_sel)]}
         ELSE {[err |-> "FileNotFoundError", name |-> <<>>]}
    ELSE IF BestCkptChoices(dir) = {}
         THEN {[err |-> "IndexError", name |-> <<>>]}
         ELSE {[err |-> "none", name |-> f.name] : f \in BestCkptChoices(dir)}

\* lines 84-102
CMLoadCkpt ==
    /\ cm_pc = "load"
    /\ \E out \in LoadOutcomes(ModelSavingDir(model_idx),
                                ModelCkptDir(model_idx), sel) :
        /\ cm_err' = out.err
        /\ ckpt_path' = out.name
        /\ cm_pc' = IF out.err = "none" THEN "batches" ELSE "failed"
    /\ UNCHANGED <<trainVars, cmArgs, cmLoop, cm_dirs, out_created,
                   batch_idx, filename_list, masks_acc, preds_acc,
                   preds_softmax_acc, cl, noise>>

\* lines 127-153: one batch is evaluated and accumulated
CMBatch ==
    /\ cm_pc = "batches"
    /\ batch_idx < NumCMBatches(batch_size)
    /\ LET ids == BatchImages(batch_idx, batch_size)
           src == SrcData(model_idx)
       IN
        /\ filename_list' =
              filename_list
                  \o [j \in 1..Len(ids) |-> DatasetFilename(src, ids[j])]
        /\ preds_softmax_acc' = preds_softmax_acc \o NetForward(src, ids, TRUE)
        /\ preds_acc' = preds_acc \o NetForward(src, ids, FALSE)
        /\ masks_acc' = masks_acc \o MasksTensor(src, ids)
    /\ batch_idx' = batch_idx + 1
    /\ UNCHANGED <<trainVars, cm_pc, cm_err, cmArgs, cmLoop, cm_dirs,
                   out_created, ckpt_path, cl, noise>>

\* lines 155-199: flattening, the cleanlab calls of the CL_type, the maps
CMPruneAndWrite ==
    /\ cm_pc = "batches"
    /\ batch_idx = NumCMBatches(batch_size)
    /\ preds_acc' = FlattenPreds(preds_acc)
    /\ preds_softmax_acc' = FlattenPreds(preds_softmax_acc)
    /\ masks_acc' = FlattenMasks(masks_acc)
    /\ \E q \in (IF NeedsSoftmaxBoth(CL_type) THEN CleanlabAnswers ELSE {<<>>}),
          c \in (IF NeedsRawBoth(CL_type) THEN CleanlabAnswers ELSE {<<>>}),
          m \in (IF NeedsSoftmaxMethod(CL_type) THEN CleanlabAnswers ELSE {<<>>}) :
        LET answers == [softmax_both |-> q, raw_both |-> c, softmax_method |-> m]
            got == NoiseOf(CL_type, answers)
        IN  /\ cl' = answers
            /\ noise' = got.mask
            /\ IF got.bound
               THEN /\ cm_dirs' =
                          [cm_dirs EXCEPT ![class_cm_dir].files =
                              WriteMaps(@, filename_list, ReshapeMaps(got.mask),
                                        Len(filename_list))]
                    /\ cm_err' = "none"
                    /\ cm_pc' = "done"
               ELSE /\ cm_dirs' = cm_dirs
                    /\ cm_err' = "UnboundLocalError"
                    /\ cm_pc' = "failed"
    /\ UNCHANGED <<trainVars, cmArgs, cmLoop, out_created,
                   ckpt_path, batch_idx, filename_list>>

\* lines 205-206: no call is left to make
LastCall ==
    \/ CL_type_list = <<>>
    \/ model_idx = 2 /\ type_pos = Len(CL_type_list)

\* lines 205-208: the loops go on to the first call, or from a call that
\* has returned to the next CL_type of the list, or to the first one for
\* model 2
CMNextCall ==
    /\ cm_pc \in {"start", "done"}
    /\ ~LastCall
    /\ LET next_pos == IF type_pos < Len(CL_type_list) THEN type_pos + 1 ELSE 1
       IN  /\ model_idx' = IF type_pos < Len(CL_type_list) THEN model_idx ELSE 2
           /\ type_pos' = next_pos
           /\ CL_type' = CL_type_list[next_pos]
    /\ cm_dirs_at_call' = cm_dirs
    /\ cm_pc' = "mkdir"
    /\ out_created' = FALSE
    /\ ckpt_path' = <<>>
    /\ batch_idx' = 0
    /\ filename_list' = <<>>
    /\ masks_acc' = <<>>
    /\ preds_acc' = <<>>
    /\ preds_softmax_acc' = <<>>
    /\ cl' = <<>>
    /\ noise' = <<>>
    /\ UNCHANGED <<trainVars, cm_err, cmArgs, cm_dirs>>

\* line 210: the last call has returned, or there was none to make
CMReturn ==
    /\ cm_pc \in {"start", "done"}
    /\ LastCall
    /\ cm_pc' = "returned"
    /\ UNCHANGED <<trainVars, cm_err, cmArgs, cmLoop, cm_dirs, out_created,
                   ckpt_path, batch_idx, filename_list, masks_acc, preds_acc,
                   preds_softmax_acc, cl, noise>>

\* the checkpoint directories the confident-map generation is tried on
CMCkptDirs == {{}, LeftoverDir(1, {}), LeftoverDir(1, {0})}
Selectors == {-1} \cup 0..(SaveEpochs - 1)

\* the values of --CL_type_list tried on the command line: every method
\* name and the empty string
CommandLineValues == KnownCLTypes \cup {""}

\* the values of args.CL_type_list tried: the strings the command line
\* gives, which line 206 iterates character by character (the first
\* character is no method, so no known method is reached this way), and
\* the lists a caller of TestConfidentMapGeneration can hand over, of
\* which ['both'] is also the default of ParseArguments: every single
\* CL_type, and one list of two
CLTypeLists ==
    {Characters(str) : str \in CommandLineValues}
    \cup {<<t>> : t \in AllCLTypes} \cup {<<"both", "Cij">>}

\* the saving directories of a model the generation is tried on: one
\* without ckpt_dir, and those with the checkpoint directories above
CMSavingDirs ==
    {[dir |-> "no_ckpt", files |-> {}]}
    \cup {[dir |-> "with_ckpt", files |-> d] : d \in CMCkptDirs}

\* a map left by an earlier run, and a file name no dataset image has
StaleMap == [r \in 1..Height |-> [c \in 1..Width |-> ToByte(TRUE)]]
OtherFilename == <<"image", FormatInt(Len(DigitStr) - 1), "png">>
\* the states a class_cm_dir can be found in: absent, empty, or holding a
\* map under the name of the first image of 'sub-2' and one under a name
\* of no image
StartDirs ==
    {AbsentDir,
     [exists |-> TRUE, files |-> {}],
     [exists |-> TRUE,
      files |-> {[name |-> <<"image", FormatInt(1), "png">>,
                  content |-> StaleMap],
                 [name |-> OtherFilename, content |-> StaleMap]}]}

InitCM ==
    /\ \E s \in CMSavingDirs : saving_dir = s.dir /\ ckpt = s.files
    /\ best_policy = "supersede"
    /\ TrainInit("off")
    /\ cm_pc = "start"
    /\ cm_err = "none"
    /\ CL_type_list \in CLTypeLists
    /\ model_idx = 1
    /\ type_pos = 0
    /\ CL_type = NoCLType
    /\ batch_size \in 1..MaxBatchSize
    /\ sel \in Selectors
    /\ \E s \in CMSavingDirs : saving_dir_sub_2 = s.dir /\ ckpt_sub_2 = s.files
    /\ names_differ \in BOOLEAN
    /\ \E start \in StartDirs :
          cm_dirs = [d \in CmDirNames(CL_type_list) |-> start]
    /\ cm_dirs_at_call = cm_dirs
    /\ out_created = FALSE
    /\ ckpt_path = <<>>
    /\ batch_idx = 0
    /\ filename_list = <<>>
    /\ masks_acc = <<>>
    /\ preds_acc = <<>>
    /\ preds_softmax_acc = <<>>
    /\ cl = <<>>
    /\ noise = <<>>

NextCM ==
    \/ CMMakeDir
    \/ CMLoadCkpt
    \/ CMBatch
    \/ CMPruneAndWrite
    \/ CMNextCall
    \/ CMReturn

SpecCM == InitCM /\ [][NextCM]_vars

--------------------------------------------------------------------------
(* Claims about the training process (specification Spec).                 *)

\* the steps of one epoch in the order of lines 264-292
EpochSteps(e) ==
    <<Step("train", e), Step("eval", e), Step("lr", e), Step("periodic", e),
      Step("best", e)>>

\* the steps of the epochs 0 .. n - 1, epoch after epoch
RECURSIVE RunSteps(_)
RunSteps(n) == IF n = 0 THEN <<>> ELSE RunSteps(n - 1) \o EpochSteps(n - 1)

\* the steps of a run that ends normally
FullRun == RunSteps(NumEpochs)

IsPrefix(s, t) == Len(s) <= Len(t) /\ \A i \in 1..Len(s) : s[i] = t[i]

CountKind(s, kind) == Cardinality({i \in 1..Len(s) : s[i].kind = kind})

\* the parameters of the network at the end of epoch e (from 0): those the
\* startup block produced, stepped once per training batch of epochs 0..e
ParamsAfterEpoch(e) ==
    [ParamsAtStartup(saving_dir, ckpt_at_start) EXCEPT
        !.steps = @ + (e + 1) * NumBatches]

\* C1: the running maximum never decreases, and whenever the validation
\* history is non-empty it equals the maximum of all entries appended.
C1_RunningMaximum ==
    /\ [](Len(hist) > 0 => RatEq(max_metric, SeqMax(hist)))
    /\ [][RatLeq(max_metric, max_metric')]_vars

\* a history that rose, fell below its maximum and rose above it again
C1_Witness ==
    /\ Len(hist) >= 3
    /\ RatLt(hist[2], hist[1])
    /\ RatLt(hist[1], hist[3])
    /\ RatEq(max_metric, hist[3])

\* C2: the best-on-validation decision is taken once per epoch, after that
\* epoch's evaluation pass and before the next one, and it fires exactly
\* when the epoch's total validation overlap equals or exceeds the maximum
\* of the validation history up to that epoch.
C2_BestDecision ==
    /\ Len(best_log) <= Len(hist)
    /\ Len(hist) <= Len(best_log) + 1
    /\ \A i \in 1..Len(best_log) :
        /\ best_log[i].epoch = i - 1
        /\ best_log[i].fired <=> RatLeq(SeqMax(SubSeq(hist, 1, i)), hist[i])

\* the example of the specification: scores ordered like
\* 0.10, 0.15, 0.12, 0.20 fire at epochs 0, 1 and 3 and not at epoch 2
C2_Witness ==
    /\ Len(best_log) = 4
    /\ RatLt(hist[1], hist[3])
    /\ RatLt(hist[3], hist[2])
    /\ RatLt(hist[2], hist[4])
    /\ best_log[1].fired /\ best_log[2].fired
    /\ ~best_log[3].fired /\ best_log[4].fired

\* C4: in an evaluation pass the optimizer is never stepped and the
\* parameters stay those the pass started with; in a training pass the
\* optimizer is stepped once for each batch consumed, a batch in which the
\* network or the loss raised excepted.
C4_OptimizerSteps ==
    /\ training => /\ opt_calls = IF abort = "forward_or_loss"
                                  THEN batches_consumed - 1
                                  ELSE batches_consumed
                   /\ pc \in {"pass_batches", "pass_report", "aborted"} =>
                        params.steps = params_at_begin.steps + opt_calls
    /\ ~training => /\ opt_calls = 0
                    /\ params = params_at_begin

\* an evaluation pass that consumed every batch after an epoch of training
C4_Witness ==
    /\ pc = "pass_report"
    /\ ~training
    /\ batches_consumed = NumBatches
    /\ params.steps >= NumBatches

\* C5 (as claimed): an exception raised by the logger or by the plotting
\* object inside iterate_for_an_epoch never ends the run.
C5_SinkFailureContained == abort \notin {"logger", "visdom_line"}

\* C6: lines 287-289 are passed once per epoch in epoch order, the periodic
\* snapshot is written at exactly the epochs that are multiples of
\* save_epochs, whatever the validation scores, and its file stays.
C6_PeriodicSnapshot ==
    \A i \in 1..Len(periodic_log) :
        /\ periodic_log[i].epoch = i - 1
        /\ periodic_log[i].fired <=> ((i - 1) % SaveEpochs = 0)
        /\ periodic_log[i].fired => PeriodicName(i - 1) \in FileNames(ckpt)
        /\ ~periodic_log[i].fired /\ PeriodicName(i - 1) \in FileNames(ckpt)
             => PeriodicName(i - 1) \in FileNames(ckpt_at_start)

\* one run in which both triggers, only the periodic one, only the best one
\* and neither fired
C6_Witness ==
    /\ Len(best_log) = Len(periodic_log)
    /\ \E a, b, c, d \in 1..Len(best_log) :
        /\ periodic_log[a].fired /\ best_log[a].fired
        /\ periodic_log[b].fired /\ ~best_log[b].fired
        /\ ~periodic_log[c].fired /\ best_log[c].fired
        /\ ~periodic_log[d].fired /\ ~best_log[d].fired

\* the highest epoch index among the periodic snapshots of a directory
HighestPeriodic(dir) ==
    SetMax({k \in 0..(Len(DigitStr) - 1) : PeriodicName(k) \in FileNames(dir)})

\* the names the program gives to the files it writes into ckpt_dir
CheckpointNames ==
    {PeriodicName(k) : k \in 0..(Len(DigitStr) - 1)}
    \cup {BestName(k) : k \in 0..(Len(DigitStr) - 1)}

\* C9 (as claimed): started on a non-empty checkpoint directory of periodic
\* snapshots and best-on-validation files, the training process loads the
\* periodic snapshot with the highest epoch index present, whether or not
\* a best-on-validation file is there too.
C9_LoadsLatestPeriodic ==
    (/\ pc # "startup"
     /\ ckpt_at_start # {}
     /\ FileNames(ckpt_at_start) \subseteq CheckpointNames) =>
        /\ abort \notin {"IndexError", "ValueError", "FileNotFoundError"}
        /\ loaded_from = PeriodicName(HighestPeriodic(ckpt_at_start))

\* C11: a run is Init, then for each epoch 0 .. num_epochs - 1 in order one
\* training pass followed by one evaluation pass of the same epoch index
\* (never two passes of one kind in a row), then one learning-rate step,
\* then the periodic-snapshot decision and the best-on-validation decision
\* of that epoch; the learning-rate steps number the completed (train, eval)
\* pairs, no checkpoint decision of an epoch precedes the return of its
\* evaluation pass, and a run that ends normally has done all of it.
C11_EpochOrder ==
    LET evals == CountKind(trace, "eval") IN
    /\ IsPrefix(trace, FullRun)
    /\ lr_steps = CountKind(trace, "lr")
    /\ lr_steps \in {evals, evals - 1}
    /\ Len(periodic_log) = CountKind(trace, "periodic")
    /\ Len(best_log) = CountKind(trace, "best")
    /\ Len(periodic_log) <= lr_steps
    /\ Len(best_log) <= Len(periodic_log)
    /\ \A i \in 1..Len(periodic_log) : periodic_log[i].epoch = i - 1
    /\ \A i \in 1..Len(best_log) : best_log[i].epoch = i - 1
    /\ evals <= Len(hist)
    /\ Len(hist) <= evals + 1
    /\ (pc \in {"finish", "done"}) => trace = FullRun

\* a run that ended normally after all its epochs
C11_Witness ==
    /\ pc = "done"
    /\ abort = "none"
    /\ Len(trace) = 5 * NumEpochs
    /\ lr_steps = NumEpochs
    /\ trace[Len(trace) - 3] = Step("eval", NumEpochs - 1)

\* the process loaded a periodic snapshot at startup and went on
Resumed == pc # "startup" /\ loaded_from # <<>>

\* the epochs of this process whose periodic snapshot has been written
SnapshotsWritten == {i - 1 : i \in {j \in 1..Len(periodic_log) : periodic_log[j].fired}}

\* C13: a process that loaded net_epoch_<k>.pth at startup numbers its
\* epochs from 0 again, in increasing order, and starts with an empty
\* validation history and the initial running maximum: the history holds
\* only the scores of its own epochs; each periodic snapshot it writes goes
\* under net_epoch_<e> for its own epoch index e and replaces the file of
\* that name the earlier run left, while the earlier files not yet
\* rewritten stay as they were; and its best-on-validation decision looks
\* at its own scores only, so its epoch 0 always counts as the best.
C13_ResumedRunRenumbers ==
    Resumed =>
        /\ loaded_from \in FileNames(ckpt_at_start)
        /\ loaded_from = PeriodicName(EpochOfName(loaded_from))
        /\ IsPrefix(trace, FullRun)
        /\ epoch_idx = IF Len(best_log) = NumEpochs
                       THEN NumEpochs - 1
                       ELSE Len(best_log)
        /\ Len(hist) \in {epoch_idx, epoch_idx + 1}
        /\ IF hist = <<>> THEN max_metric = InitialMax
                          ELSE RatEq(max_metric, SeqMax(hist))
        /\ LET loaded == FileNamed(ckpt_at_start, loaded_from).content
               written == SnapshotsWritten
           IN  /\ \A e \in written :
                     /\ Cardinality({f \in ckpt : f.name = PeriodicName(e)}) = 1
                     /\ FileNamed(ckpt, PeriodicName(e)).content =
                            [loaded EXCEPT !.steps = @ + (e + 1) * NumBatches]
                     /\ PeriodicName(e) \in FileNames(ckpt_at_start) =>
                           FileNamed(ckpt_at_start, PeriodicName(e)) \notin ckpt
               /\ \A f \in ckpt_at_start :
                     (\A e \in written : f.name # PeriodicName(e)) => f \in ckpt
        /\ \A i \in 1..Len(best_log) :
              best_log[i].fired <=>
                  \A j \in 1..i : RatLeq(hist[j], hist[i])
        /\ Len(best_log) > 0 => best_log[1].fired

\* a resumed process that ran all its epochs: the snapshot it loaded has
\* been replaced under the same name, and its epoch 0 was taken as the best
\* although it scored nothing
C13_Witness ==
    /\ Resumed
    /\ pc = "done"
    /\ Len(hist) = NumEpochs
    /\ EpochOfName(loaded_from) = SaveEpochs
    /\ epoch_idx = NumEpochs - 1
    /\ FileNamed(ckpt, PeriodicName(0)).content = ParamsAfterEpoch(0)
    /\ FileNamed(ckpt_at_start, PeriodicName(0)) \notin ckpt
    /\ loaded_from \in FileNames(ckpt)
    /\ FileNamed(ckpt, loaded_from).content # FileNamed(ckpt_at_start, loaded_from).content
    /\ FileNamed(ckpt, loaded_from).content = ParamsAfterEpoch(EpochOfName(loaded_from))
    /\ RatEq(hist[1], Rat(0, 1))
    /\ best_log[1].fired

--------------------------------------------------------------------------
(* Claims about confident-map generation (specification SpecCM).           *)

\* C7: on the same labels and predictions the 'union' mask is the
\* element-wise OR of the 'Qij' and 'Cij' masks (a superset of both), the
\* 'intersection' mask their element-wise AND (a subset of both), all four
\* have one entry per input pixel, and the call returns the mask of its own
\* CL_type.
C7_SetCombination ==
    (cm_pc = "done" /\ CL_type \in {"union", "intersection"}) =>
        LET q == NoiseOf("Qij", cl).mask
            c == NoiseOf("Cij", cl).mask
            u == NoiseOf("union", cl).mask
            x == NoiseOf("intersection", cl).mask
        IN  /\ Len(q) = Len(masks_acc) /\ Len(c) = Len(masks_acc)
            /\ Len(u) = Len(masks_acc) /\ Len(x) = Len(masks_acc)
            /\ \A i \in 1..Len(masks_acc) :
                /\ u[i] <=> (q[i] \/ c[i])
                /\ x[i] <=> (q[i] /\ c[i])
                /\ q[i] => u[i]
                /\ c[i] => u[i]
                /\ x[i] => (q[i] /\ c[i])
            /\ noise = (IF CL_type = "union" THEN u ELSE x)

\* a 'union' call on which the two cleanlab answers mark different pixels
C7_Witness ==
    /\ cm_pc = "done"
    /\ CL_type = "union"
    /\ \E i, j \in 1..Len(noise) :
        /\ cl.softmax_both[i] /\ ~cl.raw_both[i]
        /\ cl.raw_both[j] /\ ~cl.softmax_both[j]
        /\ noise[i] /\ noise[j]

\* C8 (as claimed): a CL_type outside the list is rejected with a
\* ConfigurationError before the output directory is created, before a
\* checkpoint is loaded or a batch evaluated, and before a map is written.
C8_UnknownMethodRejectedFirst ==
    (type_pos > 0 /\ CL_type \notin KnownCLTypes) =>
        /\ ~out_created
        /\ ckpt_path = <<>>
        /\ batch_idx = 0
        /\ cm_dirs = cm_dirs_at_call
        /\ cm_pc \notin {"done", "returned"}
        /\ cm_err \in {"none", "ConfigurationError"}

\* the file names of the images of the source dataset of the current call
SourceNames == {DatasetFilename(SrcData(model_idx), i) : i \in 1..NumImages}

\* C10: in every call, the map written for the i-th image of the source
\* dataset (from 0), under that image's file name, holds at row r and
\* column c the value 255 when entry i*H*W + r*W + c of the flat noise mask
\* is true and 0 otherwise; that entry of the flat labels and of the two
\* flat prediction arrays is the label and the per-class prediction vector
\* of the same pixel; there is one file per image of the source, and the
\* files the directory held under other names are left as they were.
C10_RoundTrip ==
    cm_pc = "done" =>
        LET src == SrcData(model_idx)
            before == cm_dirs_at_call[class_cm_dir].files
        IN
        /\ Cardinality(SourceNames) = NumImages
        /\ Len(filename_list) = NumImages
        /\ Len(noise) = NumPixels
        /\ FileNames(cm_files) = FileNames(before) \cup SourceNames
        /\ \A f \in before : f.name \notin SourceNames => f \in cm_files
        /\ \A d \in DOMAIN cm_dirs : d # class_cm_dir => cm_dirs[d] = cm_dirs_at_call[d]
        /\ \A i \in 0..(NumImages - 1) :
            /\ filename_list[i + 1] = DatasetFilename(src, i + 1)
            /\ Cardinality({f \in cm_files :
                               f.name = DatasetFilename(src, i + 1)}) = 1
            /\ \E f \in cm_files :
                /\ f.name = DatasetFilename(src, i + 1)
                /\ \A r \in 0..(Height - 1), c \in 0..(Width - 1) :
                    LET k == i * Height * Width + r * Width + c + 1 IN
                    /\ f.content[r + 1][c + 1] = (IF noise[k] THEN 255 ELSE 0)
                    /\ masks_acc[k] = LabelAt(src, i + 1, r + 1, c + 1)
                    /\ preds_acc[k] =
                        [ch \in 1..NumClasses |->
                            PredAt(src, i + 1, ch, r + 1, c + 1, FALSE)]
                    /\ preds_softmax_acc[k] =
                        [ch \in 1..NumClasses |->
                            PredAt(src, i + 1, ch, r + 1, c + 1, TRUE)]

\* the call for model 2, over several batches, on the directory the call
\* for model 1 filled under other names and in which an earlier run had
\* left maps: its mask marks a pixel of the last image that lies off the
\* diagonal of its map, and the maps of model 1 and the stale map of no
\* image are still there
C10_Witness ==
    /\ cm_pc = "done"
    /\ model_idx = 2
    /\ names_differ
    /\ batch_idx >= 2
    /\ noise[(NumImages - 1) * Height * Width + Width]
    /\ \E f \in cm_files :
        /\ f.name = DatasetFilename("sub-1", NumImages)
        /\ f.content[1][Width] = 255
        /\ f.content[Height][1] = 0
    /\ \E f \in cm_files :
        /\ f.name = DatasetFilename("sub-2", 1)
        /\ f.content # StaleMap
    /\ [name |-> OtherFilename, content |-> StaleMap] \in cm_files
    /\ Cardinality(cm_files) = 2 * NumImages + 1

--------------------------------------------------------------------------
(* Claims about one call of iterate_for_an_epoch (specification SpecEpoch). *)

\* the sum of the scores of class c over the given batches
ClassSum(dice, c) == SeqSum([b \in 1..Len(dice) |-> dice[b][c]])
\* the sum of all scores of the given batches
AllSum(dice) == SeqSum([c \in 1..Len(dice[1]) |-> ClassSum(dice, c)])

\* the call has passed line 130
Aggregated == pc = "pass_report"

\* C12: after the batches of a call (at least one), the epoch loss is the
\* sum of the batch losses divided by their number, the per-class overlap
\* of each class is the sum of that class's batch scores divided by the
\* number of batches, and the total overlap is the sum of the per-class
\* overlaps divided by the number of classes; an evaluation call appends
\* exactly that total to the validation history, a training call leaves
\* the history as it was.
C12_EpochMeans ==
    /\ [](Aggregated =>
            /\ Len(batch_losses) > 0
            /\ batches_consumed = Len(batch_losses)
            /\ average_loss.den > 0
            /\ average_loss.num * Len(batch_losses)
                   = SeqSum(batch_losses) * average_loss.den
            /\ Len(dice_class) = Len(batch_dice[1])
            /\ \A c \in 1..Len(dice_class) :
                  /\ dice_class[c].den > 0
                  /\ dice_class[c].num * Len(batch_dice)
                         = ClassSum(batch_dice, c) * dice_class[c].den
            /\ dice_total.den > 0
            /\ dice_total.num * (Len(batch_dice) * Len(dice_class))
                   = AllSum(batch_dice) * dice_total.den
            /\ ~training => hist[Len(hist)] = dice_total)
    /\ [][(pc = "pass_batches" /\ pc' = "pass_report") =>
            hist' = IF training THEN hist ELSE Append(hist, dice_total')]_vars

\* the example of the specification: losses 1, 2, 3 give 2; the overlap
\* vectors (9, 1), (8, 2), (7, 3) tenths give (8, 2) tenths and 5 tenths,
\* appended to a history by an evaluation call
C12_Witness ==
    /\ Aggregated
    /\ ~training
    /\ batch_losses = ExampleLosses
    /\ batch_dice = ExampleDice
    /\ RatEq(average_loss, Rat(2, 1))
    /\ RatEq(dice_class[1], Rat(8, 1))
    /\ RatEq(dice_class[2], Rat(2, 1))
    /\ RatEq(dice_total, Rat(5, 1))
    /\ Len(hist) = 2
    /\ RatEq(hist[2], Rat(5, 1))

==========================================================================
